---- MODULE Spec2Model ----
(***************************************************************************)
(* A model of scripts/build.py, the static site generator: the pure        *)
(* helpers (front-matter split, slug derivation, reading time) as          *)
(* operators over character sequences and integers, and main() as a state  *)
(* machine over the output directory.                                      *)
(*                                                                         *)
(* Strings are sequences of one-character strings.  Dates are integer day  *)
(* numbers; YearOf gives the year a day falls in.                          *)
(***************************************************************************)
EXTENDS Integers, Sequences, FiniteSets, TLC

VARIABLES
  \* ---- main(): the build pipeline
  pc,          \* position in main(): start, static, about, enter, posts, index, feed, print, done, failed
  run,         \* number of the current invocation of main()
  today,       \* the clock: what datetime.date.today() returns now
  srcPosts,    \* the posts directory: the positions in Pool of the sources it holds
  files,       \* build_posts' enumeration of the sources, sorted(SRC_POSTS.glob("*.md"))
  aboutExists, \* whether ROOT/about.md exists
  dist,        \* the output directory: a function from paths to file contents
  prevDist,    \* the output directory as it was when the current run began
  prevResult,  \* how the previous run ended: none, done, failed
  posts,       \* build_posts' list of post summaries
  i,           \* build_posts' loop position in files
  written,     \* the paths written by the current run, in the order written
  printed,     \* <<N>> once "Built N posts" is printed, <<>> before
  clockReads,  \* the values datetime.date.today() has returned in the current run
  prevReads,   \* the values it returned in the previous run
  \* ---- slug derivation (build_posts, lines 98-99)
  sTitle, sOverride, sSlug, sAgain, sPc,
  \* ---- calculate_reading_time
  rWords1, rWords2, rMin1, rMin2, rPc,
  \* ---- parse_frontmatter
  fText, fResult, fPc

buildVars == <<pc, run, today, srcPosts, files, aboutExists, dist, prevDist,
               prevResult, posts, i, written, printed, clockReads, prevReads>>
slugVars == <<sTitle, sOverride, sSlug, sAgain, sPc>>
readVars == <<rWords1, rWords2, rMin1, rMin2, rPc>>
fmVars == <<fText, fResult, fPc>>
vars == <<buildVars, slugVars, readVars, fmVars>>

(***************************************************************************)
(* Bounds of the model.                                                    *)
(***************************************************************************)
MaxTitleLen == 4
MaxWords == 520
MaxTextLen == 8
MaxRuns == 2
MaxFiles == 3
MaxDay == 4
DaysPerYear == 2

(***************************************************************************)
(* Strings.                                                                *)
(***************************************************************************)
StringsUpTo(alphabet, n) == UNION {[1..k -> alphabet] : k \in 0..n}

UpperLetters ==
  <<"A", "B", "C", "D", "E", "F", "G", "H", "I", "J", "K", "L", "M",
    "N", "O", "P", "Q", "R", "S", "T", "U", "V", "W", "X", "Y", "Z">>
LowerLetters ==
  <<"a", "b", "c", "d", "e", "f", "g", "h", "i", "j", "k", "l", "m",
    "n", "o", "p", "q", "r", "s", "t", "u", "v", "w", "x", "y", "z">>
Digits == {"0", "1", "2", "3", "4", "5", "6", "7", "8", "9"}

\* str.lower(), on ASCII.
LowerChar(c) ==
  IF \E k \in DOMAIN UpperLetters : UpperLetters[k] = c
  THEN LowerLetters[CHOOSE k \in DOMAIN UpperLetters : UpperLetters[k] = c]
  ELSE c

lower(s) == [k \in 1..Len(s) |-> LowerChar(s[k])]

\* The characters of the regular expression's class a-z0-9- .
SlugClass == {LowerLetters[k] : k \in DOMAIN LowerLetters} \cup Digits \cup {"-"}

RECURSIVE DropWhile(_, _)
DropWhile(s, cs) ==
  IF s # <<>> /\ Head(s) \in cs THEN DropWhile(Tail(s), cs) ELSE s

RECURSIVE DropWhileNot(_, _)
DropWhileNot(s, cs) ==
  IF s # <<>> /\ Head(s) \notin cs THEN DropWhileNot(Tail(s), cs) ELSE s

Reverse(s) == [k \in 1..Len(s) |-> s[Len(s) + 1 - k]]

\* str.strip(chars): drop leading and trailing characters that are in cs.
strip(s, cs) == Reverse(DropWhile(Reverse(DropWhile(s, cs)), cs))

\* re.sub(r"[^a-z0-9-]+", "-", s): every maximal run of characters outside
\* the class becomes one hyphen; characters of the class (the hyphen
\* included) are copied.
RECURSIVE re_sub(_)
re_sub(s) ==
  IF s = <<>> THEN <<>>
  ELSE IF Head(s) \in SlugClass THEN <<Head(s)>> \o re_sub(Tail(s))
  ELSE <<"-">> \o re_sub(DropWhileNot(s, SlugClass))

\* A faulty variant: the class without the digits.
RECURSIVE re_sub_no_digits(_)
re_sub_no_digits(s) ==
  IF s = <<>> THEN <<>>
  ELSE IF Head(s) \in SlugClass \ Digits THEN <<Head(s)>> \o re_sub_no_digits(Tail(s))
  ELSE <<"-">> \o re_sub_no_digits(DropWhileNot(s, SlugClass \ Digits))

derive_slug_no_digits(title) == strip(re_sub_no_digits(lower(title)), {"-"})

\* re.sub(r"[^a-z0-9-]+", "-", title.lower()).strip("-")
derive_slug(title) == strip(re_sub(lower(title)), {"-"})

\* slug = fm.get("slug") or <derived>; an absent or empty override is <<>>.
post_slug(override, title) ==
  IF override # <<>> THEN override ELSE derive_slug(title)

(***************************************************************************)
(* calculate_reading_time.  The text enters as its number of               *)
(* whitespace-separated words once the tags are removed (lines 49-50).     *)
(***************************************************************************)
WordsPerMinute == 200

Max(a, b) == IF a >= b THEN a ELSE b

\* Python's round(n / d) for integers n >= 0, d > 0: the nearest integer,
\* a tie going to the even one.
round(n, d) ==
  LET q == n \div d
      r == n % d
  IN  IF 2 * r < d THEN q
      ELSE IF 2 * r > d THEN q + 1
      ELSE IF q % 2 = 0 THEN q ELSE q + 1

\* A faulty variant: integer division in place of round().
reading_minutes_floor(words) == Max(1, words \div WordsPerMinute)

\* minutes = max(1, round(words / 200))
reading_minutes(words) == Max(1, round(words, WordsPerMinute))

calculate_reading_time(words) == <<words, reading_minutes(words)>>

(***************************************************************************)
(* parse_frontmatter.                                                      *)
(***************************************************************************)
Delim == <<"-", "-", "-">>
Whitespace == {" "}
NoData == <<>>

startswith(s, prefix) ==
  Len(s) >= Len(prefix) /\ SubSeq(s, 1, Len(prefix)) = prefix

\* str.find: the least position where sep occurs in s, 0 when it does not.
find(s, sep) ==
  LET hits == {k \in 1..(Len(s) - Len(sep) + 1) : SubSeq(s, k, k + Len(sep) - 1) = sep}
  IN  IF hits = {} THEN 0 ELSE CHOOSE k \in hits : \A h \in hits : k <= h

\* str.split(sep, maxsplit): cut at the first maxsplit occurrences of sep,
\* found left to right without overlap.
RECURSIVE split(_, _, _)
split(s, sep, maxsplit) ==
  LET k == find(s, sep)
  IN  IF maxsplit = 0 \/ k = 0 THEN <<s>>
      ELSE <<SubSeq(s, 1, k - 1)>>
             \o split(SubSeq(s, k + Len(sep), Len(s)), sep, maxsplit - 1)

\* yaml.safe_load, abstracted: a block holding "!" is not valid YAML; a
\* blank block loads as None; any other block loads as its content.
yaml_valid(fm) == \A k \in 1..Len(fm) : fm[k] # "!"
yaml_safe_load(fm) == strip(fm, Whitespace)

Parsed(data, body) == [ok |-> TRUE, data |-> data, body |-> body]
Raised(error) == [ok |-> FALSE, error |-> error]

\* A faulty variant: the body returned as split leaves it, without .strip().
parse_frontmatter_nostrip(text) ==
  IF startswith(text, Delim)
  THEN LET parts == split(text, Delim, 2)
       IN  IF Len(parts) # 3 THEN Raised("ValueError")
           ELSE IF ~yaml_valid(parts[2]) THEN Raised("YAMLError")
           ELSE Parsed(yaml_safe_load(parts[2]), parts[3])
  ELSE Parsed(NoData, text)

parse_frontmatter(text) ==
  IF startswith(text, Delim)
  THEN LET parts == split(text, Delim, 2)
       IN  \* _, fm, body = ... : unpacking fewer than three parts raises
           IF Len(parts) # 3 THEN Raised("ValueError")
           ELSE IF ~yaml_valid(parts[2]) THEN Raised("YAMLError")
           \* yaml.safe_load(fm) or {}: None becomes the empty mapping
           ELSE Parsed(yaml_safe_load(parts[2]), strip(parts[3], Whitespace))
  ELSE Parsed(NoData, text)

(***************************************************************************)
(* The parts of the state a specification does not use stay as they are.   *)
(***************************************************************************)
EmptyDir == [p \in {} |-> <<>>]

BuildOff ==
  /\ pc = "off" /\ run = 0 /\ today = 0 /\ srcPosts = {} /\ files = <<>>
  /\ aboutExists = FALSE
  /\ dist = EmptyDir /\ prevDist = EmptyDir /\ prevResult = "none"
  /\ posts = <<>> /\ i = 0 /\ written = <<>> /\ printed = <<>>
  /\ clockReads = {} /\ prevReads = {}
SlugOff ==
  sTitle = <<>> /\ sOverride = <<>> /\ sSlug = <<>> /\ sAgain = <<>> /\ sPc = "off"
ReadOff ==
  rWords1 = 0 /\ rWords2 = 0 /\ rMin1 = 0 /\ rMin2 = 0 /\ rPc = "off"
FmOff ==
  fText = <<>> /\ fResult = Parsed(NoData, <<>>) /\ fPc = "off"

(***************************************************************************)
(* SpecSlug: the slug of one post, from every title and some overrides,    *)
(* and the slug derived again from that slug.                              *)
(***************************************************************************)
TitleAlphabet == {"a", "A", "1", "-", " ", "!"}
OverrideSamples ==
  {<<>>, <<"a", "-", "1">>, <<"A", " ", "a">>, <<"-", "-">>}

InitSlug ==
  /\ sOverride \in OverrideSamples
  \* title = fm.get("title") or p.stem: never empty
  /\ sTitle \in StringsUpTo(TitleAlphabet, MaxTitleLen) \ {<<>>}
  /\ sSlug = <<>> /\ sAgain = <<>> /\ sPc = "start"
  /\ BuildOff /\ ReadOff /\ FmOff

SlugOfPost ==
  /\ sPc = "start"
  /\ sSlug' = post_slug(sOverride, sTitle)
  /\ sPc' = "slugged"
  /\ UNCHANGED <<sTitle, sOverride, sAgain, buildVars, readVars, fmVars>>

SlugOfSlug ==
  /\ sPc = "slugged"
  /\ sAgain' = derive_slug(sSlug)
  /\ sPc' = "again"
  /\ UNCHANGED <<sTitle, sOverride, sSlug, buildVars, readVars, fmVars>>

NextSlug == SlugOfPost \/ SlugOfSlug
SpecSlug == InitSlug /\ [][NextSlug]_vars

(***************************************************************************)
(* SpecRead: calculate_reading_time on two texts of any two word counts.   *)
(***************************************************************************)
InitRead ==
  /\ rWords1 \in 0..MaxWords /\ rWords2 \in 0..MaxWords
  /\ rMin1 = 0 /\ rMin2 = 0 /\ rPc = "start"
  /\ BuildOff /\ SlugOff /\ FmOff

ReadingTime ==
  /\ rPc = "start"
  /\ rMin1' = calculate_reading_time(rWords1)[2]
  /\ rMin2' = calculate_reading_time(rWords2)[2]
  /\ rPc' = "done"
  /\ UNCHANGED <<rWords1, rWords2, buildVars, slugVars, fmVars>>

NextRead == ReadingTime
SpecRead == InitRead /\ [][NextRead]_vars

(***************************************************************************)
(* SpecFm: parse_frontmatter on every text over FmAlphabet.                *)
(***************************************************************************)
FmAlphabet == {"-", "k", "!", " "}

InitFm ==
  /\ fText \in StringsUpTo(FmAlphabet, MaxTextLen)
  /\ fResult = Parsed(NoData, <<>>) /\ fPc = "start"
  /\ BuildOff /\ SlugOff /\ ReadOff

ParseFrontmatter ==
  /\ fPc = "start"
  /\ fResult' = parse_frontmatter(fText)
  /\ fPc' = "done"
  /\ UNCHANGED <<fText, buildVars, slugVars, readVars>>

NextFm == ParseFrontmatter
SpecFm == InitFm /\ [][NextFm]_vars

(***************************************************************************)
(* main(): the build.                                                      *)
(***************************************************************************)
YearOf(day) == day \div DaysPerYear

\* Paths under DIST.
RootPath(name) == [root |-> name]
PostPath(slug) == [post |-> slug]

\* The date entry of a front matter: absent, a string fromisoformat
\* rejects, or an ISO date (a day number).
NoDate == [kind |-> "none"]
BadDate == [kind |-> "bad"]
IsoDate(day) == [kind |-> "iso", day |-> day]

\* A post source: the file's stem, its text, what the metadata block of
\* that text means once it parses, and the word count of its rendered body.
Source(stem, raw, title, slug, date, words) ==
  [stem |-> stem, raw |-> raw,
   fm |-> [title |-> title, slug |-> slug, date |-> date], words |-> words]

WithFm == <<"-", "-", "-", "k", "-", "-", "-", " ", "k">>
WithBadFm == <<"-", "-", "-", "!", "-", "-", "-", "k">>
WithoutFm == <<"k", " ", "k">>

\* The post sources a posts directory may hold, in lexical filename order.
Pool ==
  << Source(<<"a">>, WithFm, <<"F", "i", "r", "s", "t">>, <<>>, IsoDate(1), 99),
     Source(<<"b">>, WithBadFm, <<>>, <<>>, NoDate, 10),
     Source(<<"c">>, WithFm, <<"S", "e", "c", "o", "n", "d">>, <<>>, IsoDate(2), 300),
     Source(<<"d">>, WithFm, <<"F", "i", "r", "s", "t", "!">>, <<>>, IsoDate(2), 500),
     Source(<<"e">>, WithoutFm, <<>>, <<>>, NoDate, 10),
     Source(<<"f">>, WithFm, <<"X">>, <<"s", "e", "c", "o", "n", "d">>, IsoDate(1), 10),
     Source(<<"g">>, WithFm, <<"G">>, <<>>, BadDate, 10) >>

\* The sources at the positions in keep, in lexical filename order.
RECURSIVE Select(_, _)
Select(keep, k) ==
  IF k > Len(Pool) THEN <<>>
  ELSE (IF k \in keep THEN <<Pool[k]>> ELSE <<>>) \o Select(keep, k + 1)

\* A faulty variant: the directory's own order, which may run either way.
glob_unsorted(keep) == {Select(keep, 1), Reverse(Select(keep, 1))}

\* sorted(SRC_POSTS.glob("*.md")): whatever order the directory lists its
\* entries in, sorted() leaves one enumeration.
sorted_glob(keep) == {Select(keep, 1)}

StaticFile == [tpl |-> "static"]
StaleFile == [tpl |-> "stale"]

\* What the output directory may hold before the first run.
PriorDists ==
  { EmptyDir,
    (RootPath("index.html") :> StaleFile) @@ (RootPath("about.html") :> StaleFile)
      @@ (RootPath("old.html") :> StaleFile)
      @@ (PostPath(<<"o", "l", "d">>) :> StaleFile)
      @@ (PostPath(<<"f", "i", "r", "s", "t">>) :> StaleFile) }

\* A faulty variant: an existing file is left as it is.
write_text_keep(d, path, content) ==
  [p \in DOMAIN d \cup {path} |-> IF p \in DOMAIN d THEN d[p] ELSE content]

\* Path.write_text: create the file or replace its content.
write_text(d, path, content) ==
  [p \in DOMAIN d \cup {path} |-> IF p = path THEN content ELSE d[p]]

\* A faulty variant: the old tree is kept.
rmtree_keep(d) == d

\* shutil.rmtree(DIST) followed by ensure_dir(DIST): an empty directory.
rmtree(d) == EmptyDir

\* build_posts, lines 96-103, on one source with the clock at t: the
\* exception raised, or the title, slug and date of the post.
post_fields(f, t) ==
  LET parsed == parse_frontmatter(f.raw)
      \* a text without front matter yields the empty mapping
      hasFm == parsed.ok /\ parsed.data # NoData
      \* title = fm.get("title") or p.stem
      title == IF hasFm /\ f.fm.title # <<>> THEN f.fm.title ELSE f.stem
      override == IF hasFm THEN f.fm.slug ELSE <<>>
      date == IF hasFm THEN f.fm.date ELSE NoDate
  IN  IF ~parsed.ok THEN Raised(parsed.error)
      ELSE IF date = BadDate THEN Raised("ValueError")
      ELSE [ok |-> TRUE, title |-> title,
            slug |-> post_slug(override, title),
            \* date_str = fm.get("date") or datetime.date.today().isoformat()
            dt |-> IF date = NoDate THEN t ELSE date.day]

\* Stable ascending insertion by date: x goes after every entry whose date
\* is not later.
RECURSIVE InsertByDate(_, _)
InsertByDate(sorted, x) ==
  IF sorted = <<>> THEN <<x>>
  ELSE IF Head(sorted).date <= x.date
       THEN <<Head(sorted)>> \o InsertByDate(Tail(sorted), x)
       ELSE <<x>> \o sorted

RECURSIVE SortByDate(_)
SortByDate(list) ==
  IF list = <<>> THEN <<>>
  ELSE InsertByDate(SortByDate(SubSeq(list, 1, Len(list) - 1)), list[Len(list)])

\* A faulty variant: sort ascending, then reverse: equal dates end up reversed.
sort_then_reverse(list) == Reverse(SortByDate(list))

\* posts.sort(key=lambda x: x["date"], reverse=True): list.sort reverses the
\* list, sorts it stably, and reverses the result, so equal keys keep their
\* original order.
sort_reverse(list) == Reverse(SortByDate(Reverse(list)))

\* A faulty variant: the number of pages under posts/.
built_count_pages(ps) == Cardinality({ps[k].slug : k \in DOMAIN ps})

\* len(posts) of the summary line.
built_count(ps) == Len(ps)

InitBuild ==
  /\ pc = "start" /\ run = 1 /\ today = 1
  /\ srcPosts \in {keep \in SUBSET DOMAIN Pool : Cardinality(keep) <= MaxFiles}
  /\ aboutExists \in BOOLEAN
  /\ dist \in PriorDists /\ prevDist = dist /\ prevResult = "none"
  /\ files = <<>> /\ posts = <<>> /\ i = 0 /\ written = <<>> /\ printed = <<>>
  /\ clockReads = {} /\ prevReads = {}
  /\ SlugOff /\ ReadOff /\ FmOff

\* The calendar moves on, at any moment.
Tick ==
  /\ pc # "off" /\ today < MaxDay
  /\ today' = today + 1
  /\ UNCHANGED <<pc, run, srcPosts, files, aboutExists, dist, prevDist, prevResult,
                 posts, i, written, printed, clockReads, prevReads,
                 slugVars, readVars, fmVars>>

\* main, lines 161-164: load the configuration, delete and recreate DIST.
main_wipe ==
  /\ pc = "start"
  /\ dist' = rmtree(dist)
  /\ pc' = "static"
  /\ UNCHANGED <<run, today, srcPosts, files, aboutExists, prevDist, prevResult,
                 posts, i, written, printed, clockReads, prevReads,
                 slugVars, readVars, fmVars>>

copy_static ==
  /\ pc = "static"
  /\ dist' = write_text(write_text(dist, RootPath("styles.css"), StaticFile),
                        RootPath("404.html"), StaticFile)
  /\ written' = written \o <<RootPath("styles.css"), RootPath("404.html")>>
  /\ pc' = "about"
  /\ UNCHANGED <<run, today, srcPosts, files, aboutExists, prevDist, prevResult,
                 posts, i, printed, clockReads, prevReads,
                 slugVars, readVars, fmVars>>

build_about ==
  /\ pc = "about"
  /\ IF aboutExists
     THEN /\ dist' = write_text(dist, RootPath("about.html"),
                       [tpl |-> "post.html", title |-> "about", year |-> YearOf(today)])
          /\ written' = Append(written, RootPath("about.html"))
          /\ clockReads' = clockReads \cup {today}
     ELSE UNCHANGED <<dist, written, clockReads>>
  /\ pc' = "enter"
  /\ UNCHANGED <<run, today, srcPosts, files, aboutExists, prevDist, prevResult,
                 posts, i, printed, prevReads, slugVars, readVars, fmVars>>

\* build_posts, lines 94-95: the empty list and the enumeration of sources.
build_posts_enter ==
  /\ pc = "enter"
  /\ files' \in sorted_glob(srcPosts)
  /\ posts' = <<>> /\ i' = 1
  /\ pc' = "posts"
  /\ UNCHANGED <<run, today, srcPosts, aboutExists, dist, prevDist, prevResult,
                 written, printed, clockReads, prevReads, slugVars, readVars, fmVars>>

\* build_posts, lines 104-133: render the page, write it, append the summary.
WritePost(f, o) ==
  LET page == [tpl |-> "post.html", title |-> o.title, iso_date |-> o.dt,
               word_count |-> calculate_reading_time(f.words)[1],
               reading_time |-> calculate_reading_time(f.words)[2],
               year |-> YearOf(today)]
  IN  /\ dist' = write_text(dist, PostPath(o.slug), page)
      /\ written' = Append(written, PostPath(o.slug))
      /\ posts' = Append(posts, [title |-> o.title, slug |-> o.slug, date |-> o.dt])
      /\ clockReads' = clockReads \cup {today}
      /\ i' = i + 1
      /\ pc' = "posts"

\* A faulty variant: a source that raises is skipped and the loop goes on.
build_posts_step_skip ==
  /\ pc = "posts" /\ i <= Len(files)
  /\ LET o == post_fields(files[i], today)
     IN  IF o.ok THEN WritePost(files[i], o)
         ELSE /\ i' = i + 1
              /\ UNCHANGED <<pc, dist, posts, written, clockReads>>
  /\ UNCHANGED <<run, today, srcPosts, files, aboutExists, prevDist, prevResult,
                 printed, prevReads, slugVars, readVars, fmVars>>

\* build_posts, lines 95-133: one turn of the loop, on files[i].  An
\* exception leaves the loop, build_posts and main.
build_posts_step ==
  /\ pc = "posts" /\ i <= Len(files)
  /\ LET o == post_fields(files[i], today)
     IN  IF o.ok THEN WritePost(files[i], o)
         ELSE /\ pc' = "failed"
              /\ UNCHANGED <<dist, posts, i, written, clockReads>>
  /\ UNCHANGED <<run, today, srcPosts, files, aboutExists, prevDist, prevResult,
                 printed, prevReads, slugVars, readVars, fmVars>>

\* build_posts, lines 134-136: the loop is over; sort and return.
build_posts_return ==
  /\ pc = "posts" /\ i > Len(files)
  /\ posts' = sort_reverse(posts)
  /\ pc' = "index"
  /\ UNCHANGED <<run, today, srcPosts, files, aboutExists, dist, prevDist, prevResult,
                 i, written, printed, clockReads, prevReads,
                 slugVars, readVars, fmVars>>

build_index ==
  /\ pc = "index"
  /\ dist' = write_text(dist, RootPath("index.html"),
               [tpl |-> "index.html", posts |-> posts, year |-> YearOf(today)])
  /\ written' = Append(written, RootPath("index.html"))
  /\ clockReads' = clockReads \cup {today}
  /\ pc' = "feed"
  /\ UNCHANGED <<run, today, srcPosts, files, aboutExists, prevDist, prevResult,
                 posts, i, printed, prevReads, slugVars, readVars, fmVars>>

build_feed ==
  /\ pc = "feed"
  /\ dist' = write_text(dist, RootPath("feed.xml"),
               [tpl |-> "feed.xml", posts |-> posts])
  /\ written' = Append(written, RootPath("feed.xml"))
  /\ pc' = "print"
  /\ UNCHANGED <<run, today, srcPosts, files, aboutExists, prevDist, prevResult,
                 posts, i, printed, clockReads, prevReads,
                 slugVars, readVars, fmVars>>

\* main, line 171: print(f"Built {len(posts)} posts ...").
main_print ==
  /\ pc = "print"
  /\ printed' = <<built_count(posts)>>
  /\ pc' = "done"
  /\ UNCHANGED <<run, today, srcPosts, files, aboutExists, dist, prevDist, prevResult,
                 posts, i, written, clockReads, prevReads,
                 slugVars, readVars, fmVars>>

\* The script is run again, on the same inputs.
main_again ==
  /\ pc \in {"done", "failed"} /\ run < MaxRuns
  /\ run' = run + 1
  /\ prevDist' = dist /\ prevResult' = pc /\ prevReads' = clockReads
  /\ files' = <<>> /\ posts' = <<>> /\ i' = 0 /\ written' = <<>> /\ printed' = <<>>
  /\ clockReads' = {}
  /\ pc' = "start"
  /\ UNCHANGED <<today, srcPosts, aboutExists, dist, slugVars, readVars, fmVars>>

Next ==
  \/ Tick
  \/ main_wipe \/ copy_static \/ build_about
  \/ build_posts_enter \/ build_posts_step \/ build_posts_return
  \/ build_index \/ build_feed \/ main_print
  \/ main_again

Init == InitBuild
Spec == Init /\ [][Next]_vars

(***************************************************************************)
(* Slug claims (SpecSlug).                                                 *)
(***************************************************************************)
OnlySlugChars(s) == \A k \in 1..Len(s) : s[k] \in SlugClass
NoDoubleHyphen(s) == \A k \in 1..(Len(s) - 1) : ~(s[k] = "-" /\ s[k + 1] = "-")
NoEdgeHyphen(s) == s = <<>> \/ (s[1] # "-" /\ s[Len(s)] # "-")
\* Slug-shaped: lowercase alphanumerics and hyphens, no hyphen at either end.
SlugShaped(s) == s # <<>> /\ OnlySlugChars(s) /\ NoEdgeHyphen(s)

\* C5: the slug of every post, from its title or from its override, holds
\* only a-z, 0-9 and hyphens, never two hyphens in a row, and neither starts
\* nor ends with a hyphen.
C5_SlugWellFormed ==
  sPc \in {"slugged", "again"} =>
    OnlySlugChars(sSlug) /\ NoDoubleHyphen(sSlug) /\ NoEdgeHyphen(sSlug)

\* C6: deriving a slug from the slug derived from a title returns it
\* unchanged, and deriving a slug from a slug-shaped title returns the title.
C6_SlugIdempotent ==
  /\ sPc = "again" /\ sOverride = <<>> => sAgain = sSlug
  /\ sPc \in {"slugged", "again"} /\ sOverride = <<>> /\ SlugShaped(sTitle)
       => sSlug = sTitle

C6_Witness ==
  /\ sPc = "again" /\ sOverride = <<>>
  /\ sTitle = <<"A", " ", "!", "1">>
  /\ sSlug = <<"a", "-", "1">> /\ sAgain = <<"a", "-", "1">>

(***************************************************************************)
(* Reading-time claim (SpecRead).                                          *)
(***************************************************************************)
Abs(n) == IF n >= 0 THEN n ELSE -n

\* m is an integer nearest to w / WordsPerMinute, or 1 where that is below 1.
RoundedFlooredAtOne(m, w) ==
  \/ 2 * Abs(WordsPerMinute * m - w) <= WordsPerMinute /\ m >= 1
  \/ m = 1 /\ w < WordsPerMinute

\* C7: the minutes are round(words / 200) floored at 1, never below 1, and
\* non-decreasing in the word count.
C7_ReadingTime ==
  rPc = "done" =>
    /\ RoundedFlooredAtOne(rMin1, rWords1)
    /\ RoundedFlooredAtOne(rMin2, rWords2)
    /\ rMin1 >= 1 /\ rMin2 >= 1
    /\ (rWords1 <= rWords2 => rMin1 <= rMin2)

C7_Witness ==
  rPc = "done" /\ rWords1 = 99 /\ rMin1 = 1 /\ rWords2 = 500 /\ rMin2 = 2

(***************************************************************************)
(* Front-matter claim (SpecFm).                                            *)
(***************************************************************************)
\* The text is Delim, a block of length a in which no further Delim starts,
\* Delim again, and a remainder.
SecondDelimAfter(text, a) ==
  /\ Len(text) >= a + 6
  /\ SubSeq(text, a + 4, a + 6) = Delim
  /\ \A k \in 4..(a + 3) : SubSeq(text, k, k + 2) # Delim
HasSecondDelim(text) == \E a \in 0..Len(text) : SecondDelimAfter(text, a)
BlockLen(text) == CHOOSE a \in 0..Len(text) : SecondDelimAfter(text, a)
Block(text) == SubSeq(text, 4, BlockLen(text) + 3)
Remainder(text) == SubSeq(text, BlockLen(text) + 7, Len(text))

AllWhitespace(s) == \A k \in 1..Len(s) : s[k] \in Whitespace
\* body is rest without its leading and trailing whitespace.
StrippedOf(body, rest) ==
  /\ body = <<>> \/ (body[1] \notin Whitespace /\ body[Len(body)] \notin Whitespace)
  /\ \E l \in 0..Len(rest) :
       /\ l + Len(body) <= Len(rest)
       /\ AllWhitespace(SubSeq(rest, 1, l))
       /\ SubSeq(rest, l + 1, l + Len(body)) = body
       /\ AllWhitespace(SubSeq(rest, l + Len(body) + 1, Len(rest)))

Range(seq) == {seq[k] : k \in DOMAIN seq}
IsPrefix(a, b) == Len(a) <= Len(b) /\ SubSeq(b, 1, Len(a)) = a
IndexPath == RootPath("index.html")
FeedPath == RootPath("feed.xml")
AboutPath == RootPath("about.html")
Returned == pc \in {"index", "feed", "print", "done"}

Titles(ps) == [k \in DOMAIN ps |-> ps[k].title]
\* What each source of Pool yields; title, slug and failure do not depend
\* on the clock.  Every title of Pool is the title of one source only.
RECURSIVE YieldFrom(_)
YieldFrom(k) ==
  IF k > Len(Pool) THEN <<>> ELSE <<post_fields(Pool[k], 0)>> \o YieldFrom(k + 1)
PoolYield == YieldFrom(1)
\* The yields of the sources at the positions in keep, ascending: the
\* lexical filename order.
RECURSIVE YieldsOf(_, _)
YieldsOf(keep, k) ==
  IF k > Len(Pool) THEN <<>>
  ELSE (IF k \in keep THEN <<PoolYield[k]>> ELSE <<>>) \o YieldsOf(keep, k + 1)
\* The sources of the posts directory, in lexical filename order.
Sources == YieldsOf(srcPosts, 1)
SourceTitle(f) == f.title
SourceSlug(f) == f.slug
SourceBuilds(f) == f.ok
SourcePos(title) ==
  CHOOSE k \in DOMAIN Sources : SourceBuilds(Sources[k]) /\ SourceTitle(Sources[k]) = title

\* C1: the list build_posts returns, which is the list the index and the
\* feed are rendered from, is ordered by date, newest first, and posts of
\* equal date are in the lexical filename order of their sources.
C1_NewestFirstStable ==
  /\ Returned =>
       \A a, b \in DOMAIN posts : a < b =>
         /\ posts[a].date >= posts[b].date
         /\ posts[a].date = posts[b].date =>
              SourcePos(posts[a].title) < SourcePos(posts[b].title)
  /\ pc \in {"feed", "print", "done"} => dist[IndexPath].posts = posts
  /\ pc \in {"print", "done"} => dist[FeedPath].posts = posts

C1_Witness ==
  /\ pc = "done" /\ srcPosts = {1, 3, 4}
  /\ Titles(posts) = <<Pool[3].fm.title, Pool[4].fm.title, Pool[1].fm.title>>
  /\ posts[1].date = posts[2].date

SameDayRuns == Cardinality(clockReads \cup prevReads) <= 1

\* C2 as stated: a second run on unchanged inputs leaves every generated
\* file with the content the first run gave it, whatever the date at each run.
C2_AsStated ==
  pc = "done" /\ prevResult = "done" => dist = prevDist

\* C2 amended: ... provided the current date is the same whenever the two
\* runs read it.
C2_SameDayIdempotent ==
  pc = "done" /\ prevResult = "done" /\ SameDayRuns => dist = prevDist

C2_Witness ==
  /\ pc = "done" /\ prevResult = "done" /\ SameDayRuns
  /\ srcPosts = {3, 4, 5} /\ aboutExists
  /\ dist = prevDist

\* C3: after a successful run the output directory holds exactly the files
\* that run wrote: the static assets, about.html if the source exists, one
\* page per distinct slug, index.html and feed.xml, and nothing older.
C3_ExactlyThisRun ==
  pc = "done" =>
    /\ DOMAIN dist = Range(written)
    /\ DOMAIN dist =
         {RootPath("styles.css"), RootPath("404.html"), IndexPath, FeedPath}
           \cup (IF aboutExists THEN {AboutPath} ELSE {})
           \cup {PostPath(SourceSlug(Sources[k])) : k \in DOMAIN Sources}
    /\ \A p \in DOMAIN dist : dist[p] # StaleFile

C3_Witness ==
  /\ pc = "done" /\ run = 1
  /\ RootPath("old.html") \in DOMAIN prevDist /\ AboutPath \in DOMAIN prevDist
  /\ ~aboutExists /\ srcPosts = {3}
  /\ DOMAIN dist = {RootPath("styles.css"), RootPath("404.html"), IndexPath,
                    FeedPath, PostPath(<<"s", "e", "c", "o", "n", "d">>)}

\* The first of the sources src that raises, or Len(src) + 1 when none does.
FirstRaising(src) ==
  CHOOSE k \in 1..(Len(src) + 1) :
    /\ k <= Len(src) => ~SourceBuilds(src[k])
    /\ \A n \in 1..(k - 1) : SourceBuilds(src[n])
\* The paths a run writes, in order: the pages stop before the first source
\* that raises, and the index and the feed follow only when none does.
FullOrder ==
  LET src == Sources
      first == FirstRaising(src)
  IN  <<RootPath("styles.css"), RootPath("404.html")>>
        \o (IF aboutExists THEN <<AboutPath>> ELSE <<>>)
        \o [k \in 1..(first - 1) |-> PostPath(SourceSlug(src[k]))]
        \o (IF first > Len(src) THEN <<IndexPath, FeedPath>> ELSE <<>>)

\* C4: a run writes in the order static assets, about page, post pages,
\* index, feed; the index and the feed are written only once every source
\* has been built; a source that raises ends the run: no later page, no
\* index, no feed and no summary line.
C4_OrderAndAbort ==
  /\ pc # "off" => IsPrefix(written, FullOrder)
  /\ IndexPath \in Range(written) =>
       /\ i = Cardinality(srcPosts) + 1 /\ Len(posts) = Cardinality(srcPosts)
       /\ FirstRaising(Sources) = Cardinality(srcPosts) + 1
  /\ pc = "failed" =>
       /\ i = FirstRaising(Sources) /\ i <= Cardinality(srcPosts)
       /\ Len(written) = 2 + (IF aboutExists THEN 1 ELSE 0) + (i - 1)
       /\ IndexPath \notin Range(written) /\ FeedPath \notin Range(written)
       /\ printed = <<>>
  /\ printed # <<>> => pc = "done"

C4_Witness ==
  /\ pc = "failed" /\ srcPosts = {1, 2, 3} /\ i = 2
  /\ written = <<RootPath("styles.css"), RootPath("404.html"),
                 PostPath(<<"f", "i", "r", "s", "t">>)>>
  /\ printed = <<>>

\* C8: with k sources a successful build prints "Built k posts" and the
\* index and the feed hold the same k entries, one per source, in the same
\* order; with none the lists are empty; with First (day 1) and Second
\* (day 2) the pages first and second exist and Second is listed first.
C8_CountAndEntries ==
  pc = "done" =>
    /\ printed = <<Len(Sources)>>
    /\ Len(dist[IndexPath].posts) = Len(Sources)
    /\ dist[FeedPath].posts = dist[IndexPath].posts
    /\ \A k \in DOMAIN Sources :
         \E j \in DOMAIN posts : dist[IndexPath].posts[j].title = SourceTitle(Sources[k])
    /\ srcPosts = {} => dist[IndexPath].posts = <<>> /\ dist[FeedPath].posts = <<>>
    /\ srcPosts = {1, 3} =>
         /\ PostPath(<<"f", "i", "r", "s", "t">>) \in DOMAIN dist
         /\ PostPath(<<"s", "e", "c", "o", "n", "d">>) \in DOMAIN dist
         /\ Titles(dist[IndexPath].posts)
              = <<<<"S", "e", "c", "o", "n", "d">>, <<"F", "i", "r", "s", "t">>>>

C8_Witness ==
  /\ pc = "done" /\ srcPosts = {1, 3} /\ printed = <<2>>
  /\ Titles(dist[FeedPath].posts)
       = <<<<"S", "e", "c", "o", "n", "d">>, <<"F", "i", "r", "s", "t">>>>

\* The last source, in lexical filename order, whose slug is that of Sources[k].
LastWithSlugOf(k) ==
  CHOOSE m \in DOMAIN Sources :
    /\ SourceSlug(Sources[m]) = SourceSlug(Sources[k])
    /\ \A n \in DOMAIN Sources :
         SourceSlug(Sources[n]) = SourceSlug(Sources[k]) => n <= m
Collision ==
  \E a, b \in DOMAIN Sources :
    /\ a < b /\ SourceBuilds(Sources[a]) /\ SourceBuilds(Sources[b])
    /\ SourceSlug(Sources[a]) = SourceSlug(Sources[b])

\* C10: two sources of one slug do not fail the build; posts/<slug>.html
\* then holds the page of the later source in lexical filename order, and
\* the summary list, the index, the feed and the count hold both posts.
C10_LastWriterWins ==
  /\ pc = "failed" => ~SourceBuilds(Sources[i])
  /\ pc = "done" /\ Collision =>
       /\ \A k \in DOMAIN Sources :
            dist[PostPath(SourceSlug(Sources[k]))].title
              = SourceTitle(Sources[LastWithSlugOf(k)])
       /\ Cardinality({p \in DOMAIN dist : DOMAIN p = {"post"}}) < Len(Sources)
       /\ Len(posts) = Len(Sources) /\ printed = <<Len(Sources)>>
       /\ Len(dist[IndexPath].posts) = Len(Sources)
       /\ Len(dist[FeedPath].posts) = Len(Sources)

C10_Witness ==
  /\ pc = "done" /\ srcPosts = {1, 4}
  /\ dist[PostPath(<<"f", "i", "r", "s", "t">>)].title = <<"F", "i", "r", "s", "t", "!">>
  /\ Len(posts) = 2 /\ printed = <<2>>

====
